---- MODULE Spec2Model ----
(***************************************************************************)
(* RevealSlidingDirective (src/src/directives/reveal-sliding.directive.ts) *)
(* as a state machine: the view is set up once (ngAfterViewInit), every    *)
(* click on the reveal button starts a chain of timer callbacks            *)
(* (sendEvents), and every callback synthesizes one touch or mouse event   *)
(* (sendEventsDispatcher) and schedules the next callback.                 *)
(***************************************************************************)
EXTENDS Integers, Sequences, FiniteSets

(* ---- bounds of the model ---------------------------------------------- *)
\* clicks made on the button
MaxClicks == 2
\* synthesis failures, layout changes and side changes, together
MaxDisturbances == 1
\* the latest time of a click
MaxStart == 10
\* the longest step of the clock
TickStep == 5
\* the latest time of a click of a user who may click late in a run
MaxLateStart == 45

(* ---- constants of the program ----------------------------------------- *)
maxIterations == 5
delay == 10
xStep == 50
yOffset == 10

toLeft == "toLeft"
toRight == "toRight"

mouseEvents == <<"mousedown", "mouseup", "mousemove">>
touchEvents == <<"touchstart", "touchend", "touchmove">>

(* ---- the environment's value sets ------------------------------------- *)
\* the values the attribute 'side' of an ion-item-options can hold
Sides == {"start", "end", "undefined"}
\* the numbers of nested ion-item-options: none, one, more than one (the
\* cases selfCheck and init tell apart)
PanelCounts == { 0, 1, 2 }
\* bounding boxes getBoundingClientRect() can return
InitialRect == [top |-> 100, left |-> 0, right |-> 400]
Rects == { InitialRect, [top |-> 130, left |-> 20, right |-> 420] }

\* the lists of sides a QueryList<IonItemOptions> can hold
PanelLists == UNION { [ 1..n -> Sides ] : n \in PanelCounts }

Min(a, b) == IF a <= b THEN a ELSE b

VARIABLES
  itemSliding,      \* is the ContentChild IonItemSliding present
  itemOptionsList,  \* the 'side' of every nested ion-item-options, in order
  hasButton,        \* does 'ion-item *[appRevealSlidingButton]' match an element
  touchSupported,   \* are Touch and TouchEvent defined on this platform
  rect,             \* what el.getBoundingClientRect() returns now
  phase,            \* "constructed", then "ready" or "failed" after ngAfterViewInit
  swipeDirection,   \* the field swipeDirection ("undefined" until init sets it)
  listeners,        \* number of click listeners on revealButton
  console,          \* console.warn / console.error calls, in order
  thrown,           \* where an exception left the directive's code uncaught
  timers,           \* pending setTimeout callbacks, in scheduling order
  attempts,         \* every call of the dispatcher, in order, with its outcome
  now,              \* the clock
  clicks,           \* clicks made on the button so far
  runs,             \* sendEvents(0) calls made so far; run r is the r-th of them
  started,          \* started[r]: the time of the click that started run r
  failures,         \* synthesis failures so far
  layouts,          \* layout changes so far
  anchors           \* changes of the first panel's side so far

vars == << itemSliding, itemOptionsList, hasButton, touchSupported, rect, phase,
           swipeDirection, listeners, console, thrown, timers, attempts, now,
           clicks, runs, started, failures, layouts, anchors >>

env == << itemSliding, itemOptionsList, hasButton, touchSupported >>

(* ---- the directive's functions ---------------------------------------- *)

\* (variant: the missing container goes unnoticed)
selfCheckNeverThrows(sliding) == FALSE

\* selfCheck: does it throw
selfCheckThrows(sliding) == ~sliding

\* selfCheck: the warnings it logs when it does not throw
selfCheckWarnings(list) ==
  (IF Len(list) > 1 THEN << "warn: Processing only a one ion-item-options element" >> ELSE << >>)
  \o (IF Len(list) = 0 THEN << "warn: Missing ion-item-options element" >> ELSE << >>)

\* (variant: the sides are taken the other way round)
initSwipeDirectionInverted(list) ==
  IF list # << >>
  THEN (IF Head(list) = "start" THEN toLeft ELSE toRight)
  ELSE toLeft

\* (variant: the last ion-item-options decides)
initSwipeDirectionLast(list) ==
  IF list # << >>
  THEN (IF list[Len(list)] = "start" THEN toRight ELSE toLeft)
  ELSE toLeft

\* init: the swipe direction from the first ion-item-options
initSwipeDirection(list) ==
  IF list # << >>
  THEN (IF Head(list) = "start" THEN toRight ELSE toLeft)
  ELSE toLeft

\* (variant: the listener is registered twice)
initListenersTwice(button, n) == IF ~button THEN n ELSE n + 2

\* (variant: the listener is registered without looking for the button)
initListenersAlways(button, n) == n + 1

\* init: the number of click listeners after looking for the button
initListeners(button, n) == IF ~button THEN n ELSE n + 1

\* init: the warning of a missing button
initWarnings(button) ==
  IF ~button THEN << "warn: appRevealSlidingButton attribute is missed" >> ELSE << >>

\* supportTouchEvent
supportTouchEvent(touch) == touch

\* (variant: the timer last scheduled fires first)
sendEventsAhead(index, r, t, queue) ==
  IF index = maxIterations
  THEN queue
  ELSE << [run |-> r, index |-> index, due |-> t + delay] >> \o queue

\* (variant: the step is scheduled twice)
sendEventsTwice(index, r, t, queue) ==
  IF index = maxIterations
  THEN queue
  ELSE queue \o << [run |-> r, index |-> index, due |-> t + delay],
                   [run |-> r, index |-> index, due |-> t + delay] >>

\* (variant: the step is scheduled without a delay)
sendEventsNoDelay(index, r, t, queue) ==
  IF index = maxIterations
  THEN queue
  ELSE Append(queue, [run |-> r, index |-> index, due |-> t])

\* (variant: the recursion stops one step late)
sendEventsStopsLate(index, r, t, queue) ==
  IF index = maxIterations + 1
  THEN queue
  ELSE Append(queue, [run |-> r, index |-> index, due |-> t + delay])

\* (variant: the recursion stops one step early)
sendEventsStopsEarly(index, r, t, queue) ==
  IF index >= maxIterations - 1
  THEN queue
  ELSE Append(queue, [run |-> r, index |-> index, due |-> t + delay])

\* (variant: a new run takes the place of the pending ones)
sendEventsRestarts(index, r, t, queue) ==
  IF index = maxIterations
  THEN queue
  ELSE IF index = 0
  THEN << [run |-> r, index |-> index, due |-> t + delay] >>
  ELSE Append(queue, [run |-> r, index |-> index, due |-> t + delay])

\* sendEvents(index): the timer queue after the call, made at time t by run r
sendEvents(index, r, t, queue) ==
  IF index = maxIterations
  THEN queue
  ELSE Append(queue, [run |-> r, index |-> index, due |-> t + delay])

\* the click listener of init, once for each of the n listeners registered:
\* each call is sendEvents(0) and starts the run after run r
RECURSIVE clickListeners(_, _, _, _)
clickListeners(n, r, t, queue) ==
  IF n = 0 THEN queue
  ELSE clickListeners(n - 1, r + 1, t, sendEvents(0, r + 1, t, queue))

\* (variant: the mouse events whatever the platform)
eventTypesMouseOnly(touch) == mouseEvents

\* sendEventsDispatcher: the triple of event types in use
eventTypes(touch) == IF supportTouchEvent(touch) THEN touchEvents ELSE mouseEvents

\* sendEventsDispatcher: the dispatcher in use
dispatcher(touch) == IF supportTouchEvent(touch) THEN "sendTouchEvent" ELSE "sendMouseEvent"

\* sendEventsDispatcher: the type of the event of step index
eventType(index, max, touch) ==
  IF index = 0 THEN eventTypes(touch)[1]
  ELSE IF index = max - 1 THEN eventTypes(touch)[2]
  ELSE eventTypes(touch)[3]

\* (variant: the events are dispatched at the trigger)
dispatchTargetButton(host, button) == button

\* sendEventsDispatcher: el, the element the events are dispatched at; host
\* is the element of the directive (this.el.nativeElement), button the
\* element of revealButton
dispatchTarget(host, button) == host

\* (variant: the box is read once, before the first click)
getBoundingClientRectOnce(current, first) == first

\* sendEventsDispatcher: rect, the box of el as it is when the step runs
\* (current), whatever it was when the directive was set up (first)
getBoundingClientRect(current, first) == current

\* (variant: the direction is derived anew at every step)
stepDirectionDerived(field, list) == initSwipeDirection(list)

\* sendEventsDispatcher: the direction a step uses, the field swipeDirection
\* (field), whatever the ion-item-options say when the step runs (list)
stepDirection(field, list) == field

\* sendEventsDispatcher: the vertical coordinate
yCoord(box) == box.top + yOffset

\* (variant: the step is subtracted in both directions)
xCoordSubtracts(box, index, direction) ==
  IF direction = toRight
  THEN box.left - index * xStep
  ELSE box.right - index * xStep

\* sendEventsDispatcher: the horizontal coordinate of step index
xCoord(box, index, direction) ==
  IF direction = toRight
  THEN box.left + index * xStep
  ELSE box.right - index * xStep

\* (variant: sendTouchEvent without its try and catch)
dispatchOutcomeUnguarded(disp, ok) ==
  IF ok THEN "dispatched" ELSE "thrown"

\* sendTouchEvent / sendMouseEvent: what becomes of a call whose platform
\* calls succeed (ok) or throw (~ok)
dispatchOutcome(disp, ok) ==
  IF ok THEN "dispatched"
  ELSE IF disp = "sendTouchEvent" THEN "caught"
  ELSE "thrown"

(* ---- initial states --------------------------------------------------- *)
Init ==
  /\ itemSliding \in BOOLEAN
  /\ itemOptionsList \in PanelLists
  /\ hasButton \in BOOLEAN
  /\ touchSupported \in BOOLEAN
  /\ rect = InitialRect
  /\ phase = "constructed"
  /\ swipeDirection = "undefined"
  /\ listeners = 0
  /\ console = << >>
  /\ thrown = {}
  /\ timers = << >>
  /\ attempts = << >>
  /\ now = 0
  /\ clicks = 0
  /\ runs = 0
  /\ started = << >>
  /\ failures = 0
  /\ layouts = 0
  /\ anchors = 0

(* ---- actions ---------------------------------------------------------- *)

\* ngAfterViewInit: selfCheck(), then init()
ngAfterViewInit ==
  /\ phase = "constructed"
  /\ IF selfCheckThrows(itemSliding)
     THEN /\ phase' = "failed"
          /\ thrown' = thrown \cup { "ngAfterViewInit" }
          /\ UNCHANGED << swipeDirection, listeners, console >>
     ELSE /\ phase' = "ready"
          /\ swipeDirection' = initSwipeDirection(itemOptionsList)
          /\ listeners' = initListeners(hasButton, listeners)
          /\ console' = console \o selfCheckWarnings(itemOptionsList) \o initWarnings(hasButton)
          /\ UNCHANGED thrown
  /\ UNCHANGED << env, rect, timers, attempts, now, clicks, runs, started, failures, layouts, anchors >>

\* a click where the reveal button is (or would be), made no later than
\* latest: every registered listener runs sendEvents(0)
ClickBy(latest) ==
  /\ phase # "constructed"
  /\ clicks < MaxClicks
  /\ now <= latest
  /\ clicks' = clicks + 1
  /\ runs' = runs + listeners
  /\ started' = started \o [ j \in 1..listeners |-> now ]
  /\ timers' = clickListeners(listeners, runs, now, timers)
  /\ UNCHANGED << env, rect, phase, swipeDirection, listeners, console, thrown,
                  attempts, now, failures, layouts, anchors >>

\* a click soon after the first
Click == ClickBy(MaxStart)

\* a click at any time of a run that started with the first
ClickLate == ClickBy(MaxLateStart)

\* the callback of setTimeout, run at the time it is due, the callbacks due
\* at one time in the order they were scheduled:
\* sendEventsDispatcher(index, maxIterations), then sendEvents(++index)
TimerFires ==
  /\ timers # << >>
  /\ Head(timers).due <= now
  /\ \E ok \in BOOLEAN :
       /\ ~ok => failures + layouts + anchors < MaxDisturbances
       /\ LET t == Head(timers)
              disp == dispatcher(touchSupported)
              outcome == dispatchOutcome(disp, ok)
              box == getBoundingClientRect(rect, InitialRect)
              direction == stepDirection(swipeDirection, itemOptionsList)
          IN /\ attempts' = Append(attempts,
                   [ run |-> t.run, index |-> t.index,
                     type |-> eventType(t.index, maxIterations, touchSupported),
                     x |-> xCoord(box, t.index, direction),
                     y |-> yCoord(box),
                     box |-> box, direction |-> direction,
                     anchor |-> initSwipeDirection(itemOptionsList),
                     target |-> dispatchTarget("el", "revealButton"),
                     via |-> disp, at |-> now, outcome |-> outcome ])
             /\ console' = IF outcome = "caught" THEN Append(console, "error: touch") ELSE console
             /\ thrown' = IF outcome = "thrown" THEN thrown \cup { "timer" } ELSE thrown
             /\ timers' = IF outcome = "thrown" THEN Tail(timers)
                          ELSE sendEvents(t.index + 1, t.run, now, Tail(timers))
             /\ failures' = IF ok THEN failures ELSE failures + 1
  /\ UNCHANGED << env, rect, phase, swipeDirection, listeners, now, clicks, runs, started, layouts, anchors >>

\* time passes while a timer is pending, never beyond the time the next one
\* is due (with no timer pending the clock is of no consequence)
Tick ==
  /\ timers # << >>
  /\ Head(timers).due > now
  /\ now' = Min(now + TickStep, Head(timers).due)
  /\ UNCHANGED << env, rect, phase, swipeDirection, listeners, console, thrown,
                  timers, attempts, clicks, runs, started, failures, layouts, anchors >>

\* the page is laid out anew: the container's bounding box changes
Layout ==
  /\ failures + layouts + anchors < MaxDisturbances
  /\ phase # "constructed"
  /\ \E box \in Rects \ { rect } : rect' = box
  /\ layouts' = layouts + 1
  /\ UNCHANGED << env, phase, swipeDirection, listeners, console, thrown, timers,
                  attempts, now, clicks, runs, started, failures, anchors >>

\* the page moves the first ion-item-options to the opposite side; the query
\* list the directive holds is live and shows the new side
SideChange ==
  /\ failures + layouts + anchors < MaxDisturbances
  /\ phase # "constructed"
  /\ itemOptionsList # << >>
  /\ itemOptionsList' = [itemOptionsList EXCEPT
                           ![1] = IF @ = "start" THEN "end" ELSE "start"]
  /\ anchors' = anchors + 1
  /\ UNCHANGED << itemSliding, hasButton, touchSupported, rect, phase,
                  swipeDirection, listeners, console, thrown, timers, attempts,
                  now, clicks, runs, started, failures, layouts >>

Next == ngAfterViewInit \/ Click \/ TimerFires \/ Tick \/ Layout \/ SideChange

Spec == Init /\ [][Next]_vars

\* the directive on a container with its trigger and one ion-item-options,
\* on a page at rest, and a user who may click late
InitLate == Init /\ itemSliding /\ hasButton /\ Len(itemOptionsList) = 1

NextLate == ngAfterViewInit \/ ClickLate \/ TimerFires \/ Tick

LateSpec == InitLate /\ [][NextLate]_vars

\* the browser runs a timer callback that is due, and time passes while a
\* timer is pending; nothing obliges the user to click
FairSpec == Spec /\ WF_vars(TimerFires) /\ WF_vars(Tick)

(* ---- derived views of the state --------------------------------------- *)
\* the events the element has received
Delivered(a) == a.outcome = "dispatched"
dispatched == SelectSeq(attempts, Delivered)

\* the dispatcher calls of run r, in order, and the events it delivered
AttemptsOf(r) == SelectSeq(attempts, LAMBDA a : a.run = r)
DispatchedOf(r) == SelectSeq(dispatched, LAMBDA a : a.run = r)

\* run r is in flight while one of its timers is pending
InFlight(r) == \E k \in 1..Len(timers) : timers[k].run = r
Ended(r) == r \in 1..runs /\ ~InFlight(r)
Failed(a) == a.outcome # "dispatched"
NoThrowIn(r) == \A k \in 1..Len(attempts) : attempts[k].run = r => attempts[k].outcome # "thrown"
NoFailureIn(r) == \A k \in 1..Len(attempts) : attempts[k].run = r => ~Failed(attempts[k])

\* start, move or end
KindOf(type) ==
  IF type \in { "touchstart", "mousedown" } THEN "start"
  ELSE IF type \in { "touchend", "mouseup" } THEN "end"
  ELSE IF type \in { "touchmove", "mousemove" } THEN "move"
  ELSE "none"
RunKinds == << "start", "move", "move", "move", "end" >>

TypeCheck ==
  /\ phase \in { "constructed", "ready", "failed" }
  /\ swipeDirection \in { "undefined", toLeft, toRight }
  /\ listeners \in 0..1
  /\ now \in Nat
  /\ runs = Len(started)

(* ---- C1 ---------------------------------------------------------------- *)
\* C1 as stated: every run that has ended has dispatched exactly 5 events,
\* at the step indices 0..4, one delay apart, of the kinds start, move, move,
\* move, end.  (Read on the runs that no uncaught exception cut short, so
\* that what refutes it is a failure the code handles as designed.)
C1_EveryRunDispatchesFive ==
  \A r \in 1..runs :
    (Ended(r) /\ NoThrowIn(r)) =>
      LET d == DispatchedOf(r)
      IN /\ Len(d) = 5
         /\ \A i \in 1..Len(d) :
              /\ d[i].index = i - 1
              /\ KindOf(d[i].type) = RunKinds[i]
              /\ d[i].at = started[r] + i * delay

\* C1, amended: the dispatcher calls of a run are made at the step indices
\* 0, 1, 2, ... in order, at most 5 of them, the first one delay after the
\* click and each one delay after the previous, with the kind start at step
\* 0, move at steps 1..3 and end at step 4; the events the run dispatches
\* are those of its calls that did not fail, and a run that has ended with
\* no failed call has dispatched exactly 5 events.
C1_RunStepsInOrder ==
  \A r \in 1..runs :
    LET a == AttemptsOf(r)
        d == DispatchedOf(r)
    IN /\ Len(a) <= 5
       /\ \A i \in 1..Len(a) :
            /\ a[i].index = i - 1
            /\ KindOf(a[i].type) = RunKinds[i]
            /\ a[i].at = started[r] + i * delay
       /\ d = SelectSeq(a, Delivered)
       /\ (Ended(r) /\ NoFailureIn(r)) =>
            /\ Len(d) = 5
            /\ [ i \in 1..5 |-> KindOf(d[i].type) ] = RunKinds

\* a run has ended after 5 events
C1_Witness ==
  \E r \in 1..runs : Ended(r) /\ NoFailureIn(r) /\ Len(DispatchedOf(r)) = 5

(* ---- C2 ---------------------------------------------------------------- *)
\* run r2 was started by a click made while run r1 was still sequencing
Overlap(r1, r2) ==
  /\ r1 < r2
  /\ started[r2] < started[r1] + maxIterations * delay
  /\ NoThrowIn(r1)

InLog(log, msg) == \E k \in 1..Len(log) : log[k] = msg

\* C3: when the container is missing, ngAfterViewInit throws before init
\* runs: no direction is resolved, no listener is registered, nothing is
\* logged, and whatever clicks follow, no run starts and no event is
\* dispatched.
C3_MissingContainerAborts ==
  (~itemSliding /\ phase # "constructed") =>
    /\ phase = "failed"
    /\ "ngAfterViewInit" \in thrown
    /\ swipeDirection = "undefined"
    /\ listeners = 0
    /\ console = << >>
    /\ runs = 0 /\ timers = << >> /\ attempts = << >>

\* setup has failed for want of a container, and the button's place has
\* been clicked twice
C3_Witness ==
  ~itemSliding /\ hasButton /\ phase = "failed" /\ clicks >= 2

(* ---- C4 ---------------------------------------------------------------- *)
\* C4: when no element carries appRevealSlidingButton, setup warns, throws
\* nothing, resolves the direction and registers no listener; no run is
\* ever started and no event is ever dispatched.
C4_MissingTriggerInert ==
  (itemSliding /\ ~hasButton /\ phase # "constructed") =>
    /\ phase = "ready"
    /\ InLog(console, "warn: appRevealSlidingButton attribute is missed")
    /\ thrown = {}
    /\ swipeDirection \in { toLeft, toRight }
    /\ listeners = 0
    /\ runs = 0 /\ timers = << >> /\ attempts = << >>

\* setup is done without a button, the direction is toRight, and two
\* clicks have been made
C4_Witness ==
  /\ itemSliding /\ ~hasButton /\ phase = "ready"
  /\ swipeDirection = toRight /\ clicks >= 2

(* ---- C8 ---------------------------------------------------------------- *)
\* C8: the direction that setup resolves is toRight exactly when the first
\* ion-item-options has the side 'start'; with any other side of the first
\* one, or with none, it is toLeft.
C8_DirectionFromFirstAnchor ==
  [][ (phase = "constructed" /\ phase' = "ready") =>
        /\ swipeDirection' \in { toLeft, toRight }
        /\ swipeDirection' = toRight <=>
             (Len(itemOptionsList) >= 1 /\ itemOptionsList[1] = "start") ]_vars

\* setup has resolved toRight from a first side 'start'
C8_Witness ==
  /\ phase = "ready" /\ swipeDirection = toRight
  /\ Len(itemOptionsList) >= 1 /\ itemOptionsList[1] = "start"

(* ---- C9 ---------------------------------------------------------------- *)
\* C9: with no ion-item-options setup warns and the direction is toLeft;
\* with two or more it warns and the direction is that of the first one's
\* side, whatever the sides of the others; in both cases setup goes on and
\* registers the click listener when the button exists.
C9_PanelCountTolerated ==
  [][ (phase = "constructed" /\ phase' # "constructed" /\ itemSliding) =>
        /\ Len(itemOptionsList) = 0 =>
             /\ swipeDirection' = toLeft
             /\ InLog(console', "warn: Missing ion-item-options element")
        /\ Len(itemOptionsList) >= 2 =>
             /\ InLog(console', "warn: Processing only a one ion-item-options element")
             /\ swipeDirection' = IF itemOptionsList[1] = "start" THEN toRight ELSE toLeft
        /\ (Len(itemOptionsList) = 0 \/ Len(itemOptionsList) >= 2) =>
             /\ phase' = "ready"
             /\ thrown' = {}
             /\ hasButton => listeners' = 1 ]_vars

\* setup has gone through with two ion-item-options of different sides,
\* and a run has been started from the registered listener
C9_Witness ==
  /\ phase = "ready" /\ Len(itemOptionsList) = 2
  /\ itemOptionsList[1] = "end" /\ itemOptionsList[2] = "start"
  /\ swipeDirection = toLeft /\ listeners = 1 /\ runs >= 1
  /\ InLog(console, "warn: Processing only a one ion-item-options element")

(* ---- C5 ---------------------------------------------------------------- *)
\* the step after the k-th dispatcher call, when there is one, is pending
\* or has been made, one delay later
NextStepFollows(k) ==
  LET a == attempts[k]
  IN IF a.index + 1 < maxIterations
     THEN \/ \E t \in 1..Len(timers) :
                /\ timers[t].run = a.run
                /\ timers[t].index = a.index + 1
                /\ timers[t].due = a.at + delay
          \/ \E j \in (k + 1)..Len(attempts) :
                /\ attempts[j].run = a.run
                /\ attempts[j].index = a.index + 1
                /\ attempts[j].at = a.at + delay
     ELSE ~InFlight(a.run)

\* C5: a synthesis failure at any step, with the touch or the mouse
\* dispatcher, does not stop the run (the next step is scheduled and made)
\* and does not reach the click handler.
C5_FailureNeverStopsRun ==
  /\ \A k \in 1..Len(attempts) : Failed(attempts[k]) => NextStepFollows(k)
  /\ "click" \notin thrown

(* ---- C6 ---------------------------------------------------------------- *)
\* C6: a failure of sendTouchEvent at step i is caught and logged there: no
\* exception leaves the timer callback, the event of step i is not
\* delivered, and the run goes on with step i+1 one delay later, up to
\* step 4, as if nothing had failed.
C6_TouchFailureCaught ==
  /\ \A k \in 1..Len(attempts) :
       (attempts[k].via = "sendTouchEvent" /\ Failed(attempts[k])) =>
         /\ attempts[k].outcome = "caught"
         /\ NextStepFollows(k)
         /\ \A j \in 1..Len(attempts) :
              (attempts[j].run = attempts[k].run /\ attempts[j].index = attempts[k].index)
                => ~Delivered(attempts[j])
  /\ touchSupported =>
       /\ "timer" \notin thrown
       /\ Cardinality({ k \in 1..Len(console) : console[k] = "error: touch" })
            = Cardinality({ k \in 1..Len(attempts) : Failed(attempts[k]) })
       /\ \A r \in 1..runs : Ended(r) => Len(AttemptsOf(r)) = 5

\* a run has ended after 5 steps, the second of which failed in
\* sendTouchEvent
C6_Witness ==
  \E k \in 1..Len(attempts) :
    /\ attempts[k].outcome = "caught" /\ attempts[k].index = 1
    /\ Ended(attempts[k].run)
    /\ Len(AttemptsOf(attempts[k].run)) = 5
    /\ Len(DispatchedOf(attempts[k].run)) = 4

(* ---- C7 ---------------------------------------------------------------- *)
SignedStep == IF swipeDirection = toRight THEN xStep ELSE 0 - xStep

\* C7 as stated: the events of one run have the same vertical coordinate,
\* and from one step to the next the horizontal coordinate moves by 50,
\* down for toLeft and up for toRight.
C7_CoordinatesWalkByFifty ==
  LET d == dispatched
  IN \A i, j \in 1..Len(d) :
       (d[i].run = d[j].run /\ d[i].index < d[j].index) =>
         /\ d[j].y = d[i].y
         /\ d[j].x - d[i].x = SignedStep * (d[j].index - d[i].index)

\* C7, amended: the same, for the events of one run that were synthesized
\* with the same bounding box of the container (the box is read anew at
\* every step, and a layout change during the run moves the events after
\* it).
C7_CoordinatesWalkByFiftyInOneBox ==
  LET d == dispatched
  IN \A i, j \in 1..Len(d) :
       (d[i].run = d[j].run /\ d[i].index < d[j].index /\ d[i].box = d[j].box) =>
         /\ d[j].y = d[i].y
         /\ d[j].x - d[i].x = SignedStep * (d[j].index - d[i].index)

\* a toRight run has delivered its 5 events, all with the same box
C7_Witness ==
  /\ swipeDirection = toRight
  /\ \E r \in 1..runs :
       /\ Ended(r) /\ Len(DispatchedOf(r)) = 5
       /\ \A i \in 1..5 : DispatchedOf(r)[i].box = DispatchedOf(r)[1].box
       /\ DispatchedOf(r)[5].x = DispatchedOf(r)[1].x + 4 * xStep

(* ---- C10 --------------------------------------------------------------- *)
TouchTypes == { touchEvents[i] : i \in 1..3 }
MouseTypes == { mouseEvents[i] : i \in 1..3 }

\* C10: every event a run dispatches is a touch event sent by
\* sendTouchEvent when the platform has Touch and TouchEvent, and a mouse
\* event sent by sendMouseEvent when it has not; no run mixes the two.
C10_OneStrategyPerRun ==
  LET d == dispatched
  IN /\ \A k \in 1..Len(d) :
          IF touchSupported
          THEN d[k].type \in TouchTypes /\ d[k].via = "sendTouchEvent"
          ELSE d[k].type \in MouseTypes /\ d[k].via = "sendMouseEvent"
     /\ \A i, j \in 1..Len(d) :
          d[i].run = d[j].run =>
            /\ d[i].via = d[j].via
            /\ (d[i].type \in TouchTypes) = (d[j].type \in TouchTypes)

\* on a touch platform a run has delivered 5 touch events
C10_Witness ==
  /\ touchSupported
  /\ \E r \in 1..runs :
       /\ Len(DispatchedOf(r)) = 5
       /\ \A i \in 1..5 : DispatchedOf(r)[i].type \in TouchTypes

(* ---- C11 --------------------------------------------------------------- *)
\* the step at index maxIterations - 1 is the last thing run r does
LastStepIsLast(r) ==
  \A k \in 1..Len(attempts) :
    (attempts[k].run = r /\ attempts[k].index = maxIterations - 1) =>
      /\ KindOf(attempts[k].type) = "end"
      /\ \A j \in (k + 1)..Len(attempts) : attempts[j].run # r
      /\ ~InFlight(r)

\* C11: every run terminates.  No callback and no timer has a step index
\* beyond 4; the 'end' event goes out at step 4 and at no other step, and
\* after it the run dispatches nothing and schedules nothing; and once the
\* timers are allowed to fire, whatever clicks are made, a state with no
\* pending timer and no run in flight is reached again and again.
C11_EveryRunTerminates ==
  /\ [](/\ \A k \in 1..Len(timers) : timers[k].index \in 0..(maxIterations - 1)
        /\ \A k \in 1..Len(attempts) :
             /\ attempts[k].index \in 0..(maxIterations - 1)
             /\ (KindOf(attempts[k].type) = "end") = (attempts[k].index = maxIterations - 1)
        /\ \A r \in 1..runs : LastStepIsLast(r))
  /\ []<>(timers = << >> /\ \A r \in 1..runs : Ended(r))

\* two runs were started and both have made their step 4; no timer is left
C11_Witness ==
  /\ runs = 2
  /\ timers = << >>
  /\ \A r \in 1..2 : \E k \in 1..Len(attempts) :
       attempts[k].run = r /\ attempts[k].index = maxIterations - 1

(* ---- C12 --------------------------------------------------------------- *)
\* the dispatcher call of run r at step i, made before the k-th call, if any
EarlierStep(r, i, k) ==
  { j \in 1..(k - 1) : attempts[j].run = r /\ attempts[j].index = i }

\* C12: every step, step 0 included, waits one delay before it synthesizes.
\* The click handler only schedules timers, one step-0 timer per run it
\* starts, due one delay later, and makes no dispatcher call; step 0 is
\* synthesized no sooner than one delay after the click, step i + 1 no
\* sooner than one delay after step i, and a timer of step i + 1 is pending
\* only once step i has been synthesized.
C12_EveryStepWaitsOneDelay ==
  /\ [][clicks' = clicks + 1 =>
          /\ attempts' = attempts
          /\ Len(timers') = Len(timers) + listeners
          /\ \A k \in 1..Len(timers') :
               IF k <= Len(timers)
               THEN timers'[k] = timers[k]
               ELSE /\ timers'[k].index = 0
                    /\ timers'[k].due = now + delay]_vars
  /\ [](/\ \A k \in 1..Len(attempts) :
             LET a == attempts[k]
             IN IF a.index = 0
                THEN a.at >= started[a.run] + delay
                ELSE \E j \in EarlierStep(a.run, a.index - 1, k) :
                       a.at >= attempts[j].at + delay
        /\ \A k \in 1..Len(timers) :
             /\ timers[k].due >= now
             /\ timers[k].index > 0 =>
                  \E j \in EarlierStep(timers[k].run, timers[k].index - 1,
                                       Len(attempts) + 1) :
                    timers[k].due = attempts[j].at + delay)

\* a click has just scheduled step 0 of a second run while the timer of
\* step 1 of the first run is pending, its step 0 synthesized
C12_Witness ==
  /\ runs = 2
  /\ \E k \in 1..Len(timers) : timers[k].run = 1 /\ timers[k].index = 1
  /\ \E k \in 1..Len(timers) :
       timers[k].run = 2 /\ timers[k].index = 0 /\ timers[k].due = now + delay
  /\ \E k \in 1..Len(attempts) : attempts[k].run = 1 /\ attempts[k].index = 0

(* ---- C13 --------------------------------------------------------------- *)
\* C13: the coordinates of step i are computed from the box of the container
\* as it is when step i runs, not as it was at the click: the dispatcher call
\* a timer callback makes records the box of that moment, y = top + 10, and
\* x = right - 50 i when swiping to the left, left + 50 i when swiping to
\* the right.
C13_CoordinatesFromCurrentBox ==
  [][Len(attempts') = Len(attempts) + 1 =>
       LET a == attempts'[Len(attempts')]
       IN /\ a.box = rect
          /\ a.y = rect.top + 10
          /\ swipeDirection = toLeft => a.x = rect.right - 50 * a.index
          /\ swipeDirection = toRight => a.x = rect.left + 50 * a.index
          /\ swipeDirection \in { toLeft, toRight }]_vars

\* the box changed in the middle of a run: step i - 1 was computed from the
\* box of the click, step i (i >= 1) from the new one
C13_Witness ==
  /\ rect # InitialRect
  /\ \E j, k \in 1..Len(attempts) :
       /\ attempts[j].run = attempts[k].run
       /\ attempts[j].index + 1 = attempts[k].index
       /\ attempts[j].box = InitialRect
       /\ attempts[k].box = rect
       /\ attempts[k].x # xCoord(InitialRect, attempts[k].index, swipeDirection)
       /\ attempts[k].y # yCoord(InitialRect)

(* ---- C14 --------------------------------------------------------------- *)
\* C14: a setup that succeeds and finds the trigger registers exactly one
\* click listener, and nothing registers one later; each click on the
\* trigger then starts exactly one new run, at step index 0; and only a
\* click starts a run.
C14_OneRunPerClick ==
  /\ []((phase = "ready" /\ hasButton) => listeners = 1)
  /\ [][listeners' # listeners => (phase = "constructed" /\ phase' = "ready")]_vars
  /\ [][runs' # runs => clicks' = clicks + 1]_vars
  /\ [][(clicks' = clicks + 1 /\ phase = "ready" /\ hasButton) =>
          /\ runs' = runs + 1
          /\ timers' = Append(timers, [run |-> runs + 1, index |-> 0, due |-> now + delay])]_vars

\* two clicks on the trigger have started two runs, nothing else has happened
C14_Witness ==
  /\ phase = "ready" /\ hasButton /\ listeners = 1
  /\ clicks = 2 /\ runs = 2
  /\ Len(timers) = 2 /\ timers[1].index = 0 /\ timers[2].index = 0

(* ---- C16 --------------------------------------------------------------- *)
\* C16: every event a step of a run dispatches, touch or mouse, is
\* dispatched at the container, the element the directive is placed on, and
\* none at the trigger element.
C16_DispatchedAtContainer ==
  \A k \in 1..Len(attempts) :
    /\ attempts[k].target = "el"
    /\ attempts[k].target # "revealButton"

\* a run started from the trigger has delivered its five events
C16_Witness ==
  /\ hasButton
  /\ \E r \in 1..runs :
       /\ Ended(r)
       /\ Len(DispatchedOf(r)) = maxIterations
       /\ \A i \in 1..maxIterations : DispatchedOf(r)[i].target = "el"

(* ---- C17 --------------------------------------------------------------- *)
\* run r has finished: it has made its last step, or an exception that
\* nothing caught has cut it short
Finished(r) ==
  \E k \in 1..Len(attempts) :
    /\ attempts[k].run = r
    /\ attempts[k].index = maxIterations - 1 \/ attempts[k].outcome = "thrown"
TimersOf(r) == { k \in 1..Len(timers) : timers[k].run = r }
RunsInFlight == { r \in 1..runs : ~Finished(r) }

\* C17: each run that has not finished owns exactly one pending timer and a
\* finished run owns none, so that there are as many pending timers as runs
\* in flight, and no more than clicks made; the step index of a pending
\* timer is in 0..4.
C17_OneTimerPerRunInFlight ==
  /\ \A r \in 1..runs :
       Cardinality(TimersOf(r)) = (IF Finished(r) THEN 0 ELSE 1)
  /\ \A k \in 1..Len(timers) :
       /\ timers[k].run \in 1..runs
       /\ timers[k].index \in 0..4
  /\ Len(timers) = Cardinality(RunsInFlight)
  /\ Len(timers) <= clicks

\* of two runs one has made its last step and owns no timer, the other is
\* in flight with its one timer
C17_Witness ==
  /\ runs = 2
  /\ \E k \in 1..Len(attempts) :
       attempts[k].run = 1 /\ attempts[k].index = maxIterations - 1
  /\ Finished(1) /\ TimersOf(1) = {}
  /\ ~Finished(2) /\ Cardinality(TimersOf(2)) = 1
  /\ Len(timers) = 1

(* ---- C15 --------------------------------------------------------------- *)
\* C15: the swipe direction is written once, by the setup, and no click, no
\* step of a run, no synthesis, delivered or failed, and no change of the
\* page writes it again; every step of every run computes with that one
\* direction, also when the first panel has moved to another side since.
C15_DirectionWrittenOnce ==
  /\ [][swipeDirection' # swipeDirection =>
          (phase = "constructed" /\ phase' = "ready" /\ attempts = << >>)]_vars
  /\ [](\A k \in 1..Len(attempts) :
          /\ attempts[k].direction = swipeDirection
          /\ attempts[k].x = IF swipeDirection = toRight
                             THEN attempts[k].box.left + attempts[k].index * xStep
                             ELSE attempts[k].box.right - attempts[k].index * xStep)

\* the first panel changed sides between two steps of a run; the step after
\* the change has kept the direction of the setup, which the panel's side no
\* longer yields
C15_Witness ==
  /\ anchors > 0
  /\ initSwipeDirection(itemOptionsList) # swipeDirection
  /\ \E j, k \in 1..Len(attempts) :
       /\ attempts[j].run = attempts[k].run
       /\ attempts[j].index < attempts[k].index
       /\ attempts[j].anchor = swipeDirection
       /\ attempts[k].anchor # swipeDirection
       /\ attempts[k].direction = swipeDirection

(* ---- C18 --------------------------------------------------------------- *)
\* the places in the log of the events run r delivered at step k
EventsAt(r, k) ==
  { i \in 1..Len(attempts) :
      attempts[i].run = r /\ attempts[i].index = k /\ Delivered(attempts[i]) }

\* a later run never overtakes an earlier one: step k of the run started
\* first comes before step k of the run started after it
NoOvertaking ==
  \A i, j \in 1..Len(attempts) :
    (attempts[i].run < attempts[j].run /\ attempts[i].index = attempts[j].index)
      => i < j

\* run b was started before run a made its last step
StartedBeforeEnd(a, b) ==
  /\ a < b
  /\ \A i \in 1..Len(attempts) :
       (attempts[i].run = a /\ attempts[i].index = maxIterations - 1)
         => started[b] < attempts[i].at

\* C18 as stated: a later run never overtakes an earlier one and,
\* consequently, when run B was started before run A has ended, the
\* container receives the 'start' of B before the 'end' of A.
C18_StartBeforeEarlierEnd ==
  /\ NoOvertaking
  /\ \A a, b \in 1..runs :
       StartedBeforeEnd(a, b) =>
         \A i \in EventsAt(a, maxIterations - 1) :
           \A j \in EventsAt(b, 0) : j < i

\* C18, amended: a later run never overtakes an earlier one: for every step
\* k the step-k call of the run started first is made before the step-k call
\* of the run started after it.  The 'start' of B comes before the 'end' of
\* A when B was started less than 4 delays after A, and after the 'end' of A
\* when B was started more than 4 delays after A.
C18_NoOvertaking ==
  /\ NoOvertaking
  /\ \A a, b \in 1..runs :
       a < b =>
         \A i \in EventsAt(a, maxIterations - 1) :
           \A j \in EventsAt(b, 0) :
             /\ started[b] < started[a] + (maxIterations - 1) * delay => j < i
             /\ started[b] > started[a] + (maxIterations - 1) * delay => i < j

\* two runs have delivered all their events; the second was started while
\* the first was waiting for its last step, and its 'start' has come after
\* the 'end' of the first
C18_Witness ==
  /\ runs = 2
  /\ started[2] > started[1] + (maxIterations - 1) * delay
  /\ started[2] < started[1] + maxIterations * delay
  /\ Len(attempts) = 2 * maxIterations
  /\ \A k \in 1..Len(attempts) :
       /\ Delivered(attempts[k])
       /\ attempts[k].run = (IF k <= maxIterations THEN 1 ELSE 2)
====
